---- MODULE Spec2Model ----
(***************************************************************************)
(* Game Plan driver (src/mame/gameplan/gameplan.cpp): the VIA 2 port       *)
(* multiplexer, the coin line, the VIA 3 -> RIOT command latch, the audio  *)
(* reset line and the RIOT interrupt forwarding, as a state machine whose  *)
(* actions are the driver's callbacks.                                     *)
(*                                                                         *)
(* The video fields machine_reset also clears (m_video_x, ...) belong to   *)
(* the video half of the driver and are not part of this model.            *)
(***************************************************************************)
EXTENDS Integers, Sequences, FiniteSets, TLC

(***************************************************************************)
(* Bytes and bit operations (uint8_t arithmetic).                          *)
(***************************************************************************)
ByteSize == 256

Byte == 0 .. (ByteSize - 1)

RECURSIVE BitAndN(_, _, _)
BitAndN(a, b, n) ==
    IF n = 0 THEN 0
    ELSE (IF a % 2 = 1 /\ b % 2 = 1 THEN 1 ELSE 0)
         + 2 * BitAndN(a \div 2, b \div 2, n - 1)

\* a & b on 8-bit values
BitAnd(a, b) == BitAndN(a, b, 8)

\* a | b on 8-bit values
BitOr(a, b) == a + b - BitAnd(a, b)

\* ~m truncated to 8 bits
BitNot(m) == (ByteSize - 1) - m

\* conversion of an int to uint8_t
ToByte(x) == x % ByteSize

(***************************************************************************)
(* Line levels of the emulator core.                                       *)
(***************************************************************************)
CLEAR_LINE == 0

ASSERT_LINE == 1

LineLevels == {CLEAR_LINE, ASSERT_LINE}

(***************************************************************************)
(* Bounds of the model.                                                    *)
(***************************************************************************)
\* largest value of the abstract RIOT register file the audio CPU programs
MaxRiotRegs == 1

\* the coin counter is not advanced past this count
MaxCoins == 2

\* callbacks counted in a run that tallies its calls
MaxCallbacks == 4

(***************************************************************************)
(* Inputs the callbacks are driven with.                                   *)
(***************************************************************************)
\* the six codes io_select_w decodes
ValidSelectCodes == {1, 2, 4, 8, 128, 64}

\* select codes of the system specification: the valid ones and some others
SelectCodes == ValidSelectCodes \cup {0, 255}

\* command bytes of the system specification (with and without bit 7)
CmdBytes == {60, 127, 188}

\* the values the six input groups IN0, IN1, IN2, IN3, DSW0, DSW1 can show
InputConfigs ==
    { [i \in 0 .. 5 |-> 160 + i],
      [i \in 0 .. 5 |-> IF i = 2 THEN 165 ELSE 255 - 3 * i] }

\* the values the input groups show when the machine starts
InitialInputs == [i \in 0 .. 5 |-> 160 + i]

\* bytes the audio CPU puts on the RIOT's port B
SoundBytes == {85, 170}

\* "no value": a handler that returns nothing, a write that never happened
None == -1

VARIABLES
    m_current_port,   \* gameplan_state::m_current_port
    inputs,           \* current value of each input group (ioport(...)->read())
    riot,             \* the RIOT: port A input (the command latch) and registers
    audio_reset,      \* level of the audio CPU's INPUT_LINE_RESET
    audio_irq,        \* level of the audio CPU's input line 0
    coin_count,       \* bookkeeping coin counter, channel 0
    lastcoin,         \* level last given to coin_counter_w on channel 0
    lastOp,           \* history: the callback that ran last, with its argument
    calls,            \* history: the collaborator calls it made, in order
    ret,              \* history: the value it returned (None for void)
    last_cmd,         \* history: byte of the most recent audio_cmd_w
    last_trig,        \* history: level of the most recent audio_trigger_w
    cmd_cleared,      \* history: the RIOT was reset after the last audio_cmd_w
    trig_cleared,     \* history: the RIOT was reset after the last audio_trigger_w
    trig_after_cmd,   \* history: audio_trigger_w ran after the last audio_cmd_w
    pre_reset,        \* history: audio_reset before the callback that ran last
    irq_out,          \* level of the RIOT's interrupt output
    soundlatch,       \* byte held by m_soundlatch (generic_latch_8)
    selected,         \* history: a valid select code was written since the reset
    snapshot,         \* the saved state: registered item -> value, or None
    at_save,          \* history: the persistent fields when the state was saved
    counts,           \* history: how many calls of each kind were made, or << >>
    bus               \* a bus access of one of the CPUs and what it selected

vars == << m_current_port, inputs, riot, audio_reset, audio_irq, coin_count,
           lastcoin, lastOp, calls, ret, last_cmd, last_trig, cmd_cleared,
           trig_cleared, pre_reset, irq_out, soundlatch, selected, snapshot,
           at_save, counts, bus, trig_after_cmd >>

hist == << last_cmd, last_trig, cmd_cleared, trig_cleared, trig_after_cmd >>

\* what the VIA 2 and VIA 3 callbacks leave alone
aux == << irq_out, soundlatch, selected, snapshot, at_save >>

\* the same without the select history
aux_io == << irq_out, soundlatch, snapshot, at_save >>

Op(name, arg) == [name |-> name, arg |-> arg]

(***************************************************************************)
(* Collaborators.                                                          *)
(***************************************************************************)
\* riot6532_device power-on state
RiotPowerOn == [porta_in |-> 0, regs |-> 0]

\* riot6532_device::reset
riot_reset(r) == RiotPowerOn

\* riot6532_device::porta_in_set(data, mask)
porta_in_set(r, data, mask) ==
    [r EXCEPT !.porta_in = BitOr(BitAnd(r.porta_in, BitNot(mask)),
                                 BitAnd(data, mask))]

\* the byte the audio CPU reads as command + trigger flag
Latch == riot.porta_in

\* the calls a handler makes, as <<function, target, argument>>
CallSetInputLine(line, level) == << "set_input_line", line, level >>

CallRiotReset == << "riot_reset", "", 0 >>

CallBoostInterleave == << "boost_interleave", "attotime::zero", 10 >>

CallCoinCounter(active) == << "coin_counter_w", "0", active >>

CallPortaInSet(data, mask) == << "porta_in_set", "", data * ByteSize + mask >>

(***************************************************************************)
(* VIA 2 - I/O                                                             *)
(***************************************************************************)
\* mutant: the index inferred from the bit position (0x40 -> 4, 0x80 -> 5)
SelectedPort_bitorder(data, old) ==
    CASE data = 1   -> 0
      [] data = 2   -> 1
      [] data = 4   -> 2
      [] data = 8   -> 3
      [] data = 64  -> 4
      [] data = 128 -> 5
      [] OTHER      -> old

\* mutant: a code the switch does not know selects group 0
SelectedPort_default0(data, old) ==
    CASE data = 1   -> 0
      [] data = 2   -> 1
      [] data = 4   -> 2
      [] data = 8   -> 3
      [] data = 128 -> 4
      [] data = 64  -> 5
      [] OTHER      -> 0

\* mutant: the index is the number of the bit set (0x40 -> 6, 0x80 -> 7)
SelectedPort_bitnumber(data, old) ==
    CASE data = 1   -> 0
      [] data = 2   -> 1
      [] data = 4   -> 2
      [] data = 8   -> 3
      [] data = 16  -> 4
      [] data = 32  -> 5
      [] data = 64  -> 6
      [] data = 128 -> 7
      [] OTHER      -> old

\* the switch of io_select_w: the index a code selects, the old one otherwise
SelectedPort(data, old) ==
    CASE data = 1   -> 0
      [] data = 2   -> 1
      [] data = 4   -> 2
      [] data = 8   -> 3
      [] data = 128 -> 4
      [] data = 64  -> 5
      [] OTHER      -> old

io_select_w(data) ==
    /\ m_current_port' = SelectedPort(data, m_current_port)
    /\ selected' = IF data \in ValidSelectCodes THEN "yes" ELSE selected
    /\ lastOp' = Op("io_select_w", data)
    /\ pre_reset' = audio_reset
    /\ calls' = << >>
    /\ ret' = None
    /\ UNCHANGED << aux_io, inputs, riot, audio_reset, audio_irq, coin_count, lastcoin, hist >>

\* mutant: a read steps the multiplexer on to the next group
io_port_r_autoinc ==
    /\ ret' = inputs[m_current_port]
    /\ m_current_port' = (m_current_port + 1) % 6
    /\ lastOp' = Op("io_port_r", 0)
    /\ pre_reset' = audio_reset
    /\ calls' = << >>
    /\ UNCHANGED << aux, inputs, riot, audio_reset, audio_irq,
                    coin_count, lastcoin, hist >>

io_port_r ==
    /\ ret' = inputs[m_current_port]
    /\ lastOp' = Op("io_port_r", 0)
    /\ pre_reset' = audio_reset
    /\ calls' = << >>
    /\ UNCHANGED << aux, m_current_port, inputs, riot, audio_reset, audio_irq,
                    coin_count, lastcoin, hist >>

\* bookkeeping coin_counter_w(0, on): counts the rising edges of `on'
\* (the model stops feeding coins at MaxCoins)
coin_counter_w(on) ==
    /\ (on = 1 /\ lastcoin = 0) => coin_count < MaxCoins
    /\ coin_count' = IF on = 1 /\ lastcoin = 0
                     THEN coin_count + 1 ELSE coin_count
    /\ lastcoin' = on

\* mutant: the line level is passed on without the inversion
coin_w_noinvert(state) ==
    LET active == state % 2
    IN  /\ coin_counter_w(active)
        /\ lastOp' = Op("coin_w", state)
        /\ pre_reset' = audio_reset
        /\ calls' = << CallCoinCounter(active) >>
        /\ ret' = None
        /\ UNCHANGED << aux, m_current_port, inputs, riot, audio_reset, audio_irq, hist >>

\* mutant: the counter is pulsed whatever the level of the line
coin_w_always(state) ==
    LET active == 1
    IN  /\ coin_counter_w(active)
        /\ lastOp' = Op("coin_w", state)
        /\ pre_reset' = audio_reset
        /\ calls' = << CallCoinCounter(active) >>
        /\ ret' = None
        /\ UNCHANGED << aux, m_current_port, inputs, riot, audio_reset, audio_irq, hist >>

coin_w(state) ==
    LET active == 1 - (state % 2)      \* ~state & 1
    IN  /\ coin_counter_w(active)
        /\ lastOp' = Op("coin_w", state)
        /\ pre_reset' = audio_reset
        /\ calls' = << CallCoinCounter(active) >>
        /\ ret' = None
        /\ UNCHANGED << aux, m_current_port, inputs, riot, audio_reset, audio_irq, hist >>

(***************************************************************************)
(* VIA 3 - audio                                                           *)
(***************************************************************************)
\* mutant: the RIOT reset and the boost on the other level (state != 0)
audio_reset_w_inverted(state) ==
    /\ audio_reset' = IF state # 0 THEN CLEAR_LINE ELSE ASSERT_LINE
    /\ IF state # 0
       THEN /\ riot' = riot_reset(riot)
            /\ calls' = << CallSetInputLine("INPUT_LINE_RESET", CLEAR_LINE),
                           CallRiotReset, CallBoostInterleave >>
            /\ cmd_cleared' = (last_cmd # None)
            /\ trig_cleared' = (last_trig # None)
       ELSE /\ riot' = riot
            /\ calls' = << CallSetInputLine("INPUT_LINE_RESET", ASSERT_LINE) >>
            /\ UNCHANGED << cmd_cleared, trig_cleared >>
    /\ lastOp' = Op("audio_reset_w", state)
    /\ pre_reset' = audio_reset
    /\ ret' = None
    /\ UNCHANGED << aux, m_current_port, inputs, audio_irq, coin_count, lastcoin,
                    last_cmd, last_trig, trig_after_cmd >>

\* mutant: the RIOT is reset and the boost requested on either level
audio_reset_w_always(state) ==
    /\ audio_reset' = IF state # 0 THEN CLEAR_LINE ELSE ASSERT_LINE
    /\ riot' = riot_reset(riot)
    /\ calls' = << CallSetInputLine("INPUT_LINE_RESET",
                                    IF state # 0 THEN CLEAR_LINE ELSE ASSERT_LINE),
                   CallRiotReset, CallBoostInterleave >>
    /\ cmd_cleared' = (last_cmd # None)
    /\ trig_cleared' = (last_trig # None)
    /\ lastOp' = Op("audio_reset_w", state)
    /\ pre_reset' = audio_reset
    /\ ret' = None
    /\ UNCHANGED << aux, m_current_port, inputs, audio_irq, coin_count, lastcoin,
                    last_cmd, last_trig, trig_after_cmd >>

\* mutant: the RIOT reset is left out
audio_reset_w_noriot(state) ==
    /\ audio_reset' = IF state # 0 THEN CLEAR_LINE ELSE ASSERT_LINE
    /\ riot' = riot
    /\ calls' = IF state = 0
                THEN << CallSetInputLine("INPUT_LINE_RESET", ASSERT_LINE),
                        CallBoostInterleave >>
                ELSE << CallSetInputLine("INPUT_LINE_RESET", CLEAR_LINE) >>
    /\ lastOp' = Op("audio_reset_w", state)
    /\ pre_reset' = audio_reset
    /\ ret' = None
    /\ UNCHANGED << aux, m_current_port, inputs, audio_irq, coin_count, lastcoin, hist >>

\* mutant: each write toggles the reset input
audio_reset_w_toggle(state) ==
    /\ audio_reset' = 1 - audio_reset
    /\ IF state = 0
       THEN /\ riot' = riot_reset(riot)
            /\ calls' = << CallSetInputLine("INPUT_LINE_RESET", 1 - audio_reset),
                           CallRiotReset, CallBoostInterleave >>
            /\ cmd_cleared' = (last_cmd # None)
            /\ trig_cleared' = (last_trig # None)
       ELSE /\ riot' = riot
            /\ calls' = << CallSetInputLine("INPUT_LINE_RESET", 1 - audio_reset) >>
            /\ UNCHANGED << cmd_cleared, trig_cleared >>
    /\ lastOp' = Op("audio_reset_w", state)
    /\ pre_reset' = audio_reset
    /\ ret' = None
    /\ UNCHANGED << aux, m_current_port, inputs, audio_irq, coin_count, lastcoin,
                    last_cmd, last_trig, trig_after_cmd >>

\* mutant: the RIOT is reset and the boost requested only when the reset
\* input was not asserted already
audio_reset_w_edge(state) ==
    /\ audio_reset' = IF state # 0 THEN CLEAR_LINE ELSE ASSERT_LINE
    /\ IF state = 0 /\ audio_reset = CLEAR_LINE
       THEN /\ riot' = riot_reset(riot)
            /\ calls' = << CallSetInputLine("INPUT_LINE_RESET", ASSERT_LINE),
                           CallRiotReset, CallBoostInterleave >>
            /\ cmd_cleared' = (last_cmd # None)
            /\ trig_cleared' = (last_trig # None)
       ELSE /\ riot' = riot
            /\ calls' = << CallSetInputLine("INPUT_LINE_RESET",
                               IF state # 0 THEN CLEAR_LINE ELSE ASSERT_LINE) >>
            /\ UNCHANGED << cmd_cleared, trig_cleared >>
    /\ lastOp' = Op("audio_reset_w", state)
    /\ pre_reset' = audio_reset
    /\ ret' = None
    /\ UNCHANGED << aux, m_current_port, inputs, audio_irq, coin_count, lastcoin,
                    last_cmd, last_trig, trig_after_cmd >>

\* mutant: asserting the reset also returns the multiplexer to group 0
audio_reset_w_port(state) ==
    /\ audio_reset' = IF state # 0 THEN CLEAR_LINE ELSE ASSERT_LINE
    /\ IF state = 0
       THEN /\ riot' = riot_reset(riot)
            /\ m_current_port' = 0
            /\ calls' = << CallSetInputLine("INPUT_LINE_RESET", ASSERT_LINE),
                           CallRiotReset, CallBoostInterleave >>
            /\ cmd_cleared' = (last_cmd # None)
            /\ trig_cleared' = (last_trig # None)
       ELSE /\ riot' = riot
            /\ m_current_port' = m_current_port
            /\ calls' = << CallSetInputLine("INPUT_LINE_RESET", CLEAR_LINE) >>
            /\ UNCHANGED << cmd_cleared, trig_cleared >>
    /\ lastOp' = Op("audio_reset_w", state)
    /\ pre_reset' = audio_reset
    /\ ret' = None
    /\ UNCHANGED << aux, inputs, audio_irq, coin_count, lastcoin,
                    last_cmd, last_trig, trig_after_cmd >>

audio_reset_w(state) ==
    /\ audio_reset' = IF state # 0 THEN CLEAR_LINE ELSE ASSERT_LINE
    /\ IF state = 0
       THEN /\ riot' = riot_reset(riot)
            /\ calls' = << CallSetInputLine("INPUT_LINE_RESET", ASSERT_LINE),
                           CallRiotReset, CallBoostInterleave >>
            /\ cmd_cleared' = (last_cmd # None)
            /\ trig_cleared' = (last_trig # None)
       ELSE /\ riot' = riot
            /\ calls' = << CallSetInputLine("INPUT_LINE_RESET", CLEAR_LINE) >>
            /\ UNCHANGED << cmd_cleared, trig_cleared >>
    /\ lastOp' = Op("audio_reset_w", state)
    /\ pre_reset' = audio_reset
    /\ ret' = None
    /\ UNCHANGED << aux, m_current_port, inputs, audio_irq, coin_count, lastcoin,
                    last_cmd, last_trig, trig_after_cmd >>

\* mutant: the command write replaces the whole byte (mask 0xff)
audio_cmd_w_fullmask(data) ==
    /\ riot' = porta_in_set(riot, data, 255)
    /\ lastOp' = Op("audio_cmd_w", data)
    /\ pre_reset' = audio_reset
    /\ calls' = << CallPortaInSet(data, 255) >>
    /\ ret' = None
    /\ last_cmd' = data
    /\ trig_after_cmd' = FALSE
    /\ cmd_cleared' = FALSE
    /\ UNCHANGED << aux, m_current_port, inputs, audio_reset, audio_irq, coin_count,
                    lastcoin, last_trig, trig_cleared >>

audio_cmd_w(data) ==
    /\ riot' = porta_in_set(riot, data, 127)
    /\ lastOp' = Op("audio_cmd_w", data)
    /\ pre_reset' = audio_reset
    /\ calls' = << CallPortaInSet(data, 127) >>
    /\ ret' = None
    /\ last_cmd' = data
    /\ trig_after_cmd' = FALSE
    /\ cmd_cleared' = FALSE
    /\ UNCHANGED << aux, m_current_port, inputs, audio_reset, audio_irq, coin_count,
                    lastcoin, last_trig, trig_cleared >>

\* mutant: the trigger write replaces the whole byte (mask 0xff)
audio_trigger_w_fullmask(state) ==
    /\ riot' = porta_in_set(riot, ToByte(state * 128), 255)
    /\ lastOp' = Op("audio_trigger_w", state)
    /\ pre_reset' = audio_reset
    /\ calls' = << CallPortaInSet(ToByte(state * 128), 255) >>
    /\ ret' = None
    /\ last_trig' = state
    /\ trig_after_cmd' = (last_cmd # None)
    /\ trig_cleared' = FALSE
    /\ UNCHANGED << aux, m_current_port, inputs, audio_reset, audio_irq, coin_count,
                    lastcoin, last_cmd, cmd_cleared >>

\* mutant: the level is not shifted into bit 7
audio_trigger_w_noshift(state) ==
    /\ riot' = porta_in_set(riot, state, 128)
    /\ lastOp' = Op("audio_trigger_w", state)
    /\ pre_reset' = audio_reset
    /\ calls' = << CallPortaInSet(state, 128) >>
    /\ ret' = None
    /\ last_trig' = state
    /\ trig_after_cmd' = (last_cmd # None)
    /\ trig_cleared' = FALSE
    /\ UNCHANGED << aux, m_current_port, inputs, audio_reset, audio_irq, coin_count,
                    lastcoin, last_cmd, cmd_cleared >>

\* mutant: the trigger write also requests an interleave boost
audio_trigger_w_boost(state) ==
    /\ riot' = porta_in_set(riot, ToByte(state * 128), 128)
    /\ lastOp' = Op("audio_trigger_w", state)
    /\ pre_reset' = audio_reset
    /\ calls' = << CallPortaInSet(ToByte(state * 128), 128), CallBoostInterleave >>
    /\ ret' = None
    /\ last_trig' = state
    /\ trig_after_cmd' = (last_cmd # None)
    /\ trig_cleared' = FALSE
    /\ UNCHANGED << aux, m_current_port, inputs, audio_reset, audio_irq, coin_count,
                    lastcoin, last_cmd, cmd_cleared >>

audio_trigger_w(state) ==
    /\ riot' = porta_in_set(riot, ToByte(state * 128), 128)
    /\ lastOp' = Op("audio_trigger_w", state)
    /\ pre_reset' = audio_reset
    /\ calls' = << CallPortaInSet(ToByte(state * 128), 128) >>
    /\ ret' = None
    /\ last_trig' = state
    /\ trig_after_cmd' = (last_cmd # None)
    /\ trig_cleared' = FALSE
    /\ UNCHANGED << aux, m_current_port, inputs, audio_reset, audio_irq, coin_count,
                    lastcoin, last_cmd, cmd_cleared >>

(***************************************************************************)
(* RIOT - audio                                                            *)
(***************************************************************************)
\* mutant: the level is forwarded only while the audio CPU is out of reset
r6532_irq_gated(state) ==
    /\ audio_irq' = IF audio_reset = CLEAR_LINE THEN state ELSE audio_irq
    /\ calls' = IF state = ASSERT_LINE
                THEN << CallSetInputLine("0", state), CallBoostInterleave >>
                ELSE << CallSetInputLine("0", state) >>
    /\ lastOp' = Op("r6532_irq", state)
    /\ pre_reset' = audio_reset
    /\ ret' = None
    /\ UNCHANGED << soundlatch, selected, snapshot, at_save, m_current_port,
                    inputs, riot, audio_reset, coin_count, lastcoin, hist >>

\* mutant: the boost is requested on every level
r6532_irq_boost_always(state) ==
    /\ audio_irq' = state
    /\ calls' = << CallSetInputLine("0", state), CallBoostInterleave >>
    /\ lastOp' = Op("r6532_irq", state)
    /\ pre_reset' = audio_reset
    /\ ret' = None
    /\ UNCHANGED << soundlatch, selected, snapshot, at_save, m_current_port,
                    inputs, riot, audio_reset, coin_count, lastcoin, hist >>

\* mutant: the interrupt handler acknowledges by clearing the trigger bit
r6532_irq_ack(state) ==
    /\ audio_irq' = state
    /\ riot' = porta_in_set(riot, 0, 128)
    /\ calls' = IF state = ASSERT_LINE
                THEN << CallSetInputLine("0", state), CallBoostInterleave >>
                ELSE << CallSetInputLine("0", state) >>
    /\ lastOp' = Op("r6532_irq", state)
    /\ pre_reset' = audio_reset
    /\ ret' = None
    /\ UNCHANGED << soundlatch, selected, snapshot, at_save, m_current_port,
                    inputs, audio_reset, coin_count, lastcoin, hist >>

\* mutant: the interrupt site asks for a window of 100 microseconds
r6532_irq_boost_long(state) ==
    /\ audio_irq' = state
    /\ calls' = IF state = ASSERT_LINE
                THEN << CallSetInputLine("0", state),
                        << "boost_interleave", "attotime::zero", 100 >> >>
                ELSE << CallSetInputLine("0", state) >>
    /\ lastOp' = Op("r6532_irq", state)
    /\ pre_reset' = audio_reset
    /\ ret' = None
    /\ UNCHANGED << soundlatch, selected, snapshot, at_save, m_current_port,
                    inputs, riot, audio_reset, coin_count, lastcoin, hist >>

r6532_irq(state) ==
    /\ audio_irq' = state
    /\ calls' = IF state = ASSERT_LINE
                THEN << CallSetInputLine("0", state), CallBoostInterleave >>
                ELSE << CallSetInputLine("0", state) >>
    /\ lastOp' = Op("r6532_irq", state)
    /\ pre_reset' = audio_reset
    /\ ret' = None
    /\ UNCHANGED << soundlatch, selected, snapshot, at_save, m_current_port, inputs, riot, audio_reset, coin_count,
                    lastcoin, hist >>

\* the audio CPU executes a store to a RIOT register (audio map, 0x0800-0x081f);
\* a CPU whose reset line is asserted executes nothing
audio_riot_write(v) ==
    /\ audio_reset = CLEAR_LINE
    /\ riot' = [riot EXCEPT !.regs = v]
    /\ lastOp' = Op("audio_riot_write", v)
    /\ pre_reset' = audio_reset
    /\ calls' = << >>
    /\ ret' = None
    /\ UNCHANGED << aux, m_current_port, inputs, audio_reset, audio_irq, coin_count,
                    lastcoin, hist >>

\* the audio CPU stores to the RIOT's port B: out_pb_callback writes the byte
\* to m_soundlatch (generic_latch_8_device::write)
riot_pb_out(v) ==
    /\ audio_reset = CLEAR_LINE
    /\ soundlatch' = v
    /\ lastOp' = Op("riot_pb_out", v)
    /\ pre_reset' = audio_reset
    /\ calls' = << >>
    /\ ret' = None
    /\ UNCHANGED << irq_out, selected, snapshot, at_save, m_current_port, inputs,
                    riot, audio_reset, audio_irq, coin_count, lastcoin, hist >>

\* the audio CPU loads the RIOT's port A (audio map, riot6532_device::read):
\* it gets the command latch, the port's pins being inputs
riot_porta_r ==
    /\ audio_reset = CLEAR_LINE
    /\ ret' = Latch
    /\ lastOp' = Op("riot_porta_r", 0)
    /\ pre_reset' = audio_reset
    /\ calls' = << >>
    /\ UNCHANGED << aux, m_current_port, inputs, riot, audio_reset, audio_irq,
                    coin_count, lastcoin, hist >>

\* mutant: reading the sound latch empties it
soundlatch_r_clear ==
    /\ ret' = soundlatch
    /\ soundlatch' = 0
    /\ lastOp' = Op("soundlatch_r", 0)
    /\ pre_reset' = audio_reset
    /\ calls' = << >>
    /\ UNCHANGED << irq_out, selected, snapshot, at_save, m_current_port, inputs,
                    riot, audio_reset, audio_irq, coin_count, lastcoin, hist >>

\* the main CPU reads port B of m_via_2: readpb_handler reads m_soundlatch
\* (generic_latch_8_device::read)
soundlatch_r ==
    /\ ret' = soundlatch
    /\ lastOp' = Op("soundlatch_r", 0)
    /\ pre_reset' = audio_reset
    /\ calls' = << >>
    /\ UNCHANGED << aux, m_current_port, inputs, riot, audio_reset, audio_irq,
                    coin_count, lastcoin, hist >>

(***************************************************************************)
(* Machine                                                                 *)
(***************************************************************************)
\* mutant: machine_reset also asserts the audio CPU's reset line
machine_reset_asserting ==
    /\ m_current_port' = 0
    /\ audio_reset' = ASSERT_LINE
    /\ lastOp' = Op("machine_reset", 0)
    /\ pre_reset' = audio_reset
    /\ calls' = << CallSetInputLine("INPUT_LINE_RESET", ASSERT_LINE) >>
    /\ ret' = None
    /\ selected' = IF selected = "no" THEN "no" ELSE "cleared"
    /\ UNCHANGED << aux_io, inputs, riot, audio_irq, coin_count, lastcoin, hist >>

\* mutant: machine_reset also resets the RIOT
machine_reset_riot ==
    /\ m_current_port' = 0
    /\ selected' = IF selected = "no" THEN "no" ELSE "cleared"
    /\ riot' = riot_reset(riot)
    /\ cmd_cleared' = (last_cmd # None)
    /\ trig_cleared' = (last_trig # None)
    /\ lastOp' = Op("machine_reset", 0)
    /\ pre_reset' = audio_reset
    /\ calls' = << CallRiotReset >>
    /\ ret' = None
    /\ UNCHANGED << aux_io, inputs, audio_reset, audio_irq, coin_count, lastcoin,
                    last_cmd, last_trig, trig_after_cmd >>

\* mutant: machine_reset leaves the selected port as it is
machine_reset_keep_port ==
    /\ m_current_port' = m_current_port
    /\ selected' = IF selected = "no" THEN "no" ELSE "cleared"
    /\ lastOp' = Op("machine_reset", 0)
    /\ pre_reset' = audio_reset
    /\ calls' = << >>
    /\ ret' = None
    /\ UNCHANGED << aux_io, inputs, riot, audio_reset, audio_irq, coin_count, lastcoin, hist >>

machine_reset ==
    /\ m_current_port' = 0
    /\ selected' = IF selected = "no" THEN "no" ELSE "cleared"
    /\ lastOp' = Op("machine_reset", 0)
    /\ pre_reset' = audio_reset
    /\ calls' = << >>
    /\ ret' = None
    /\ UNCHANGED << aux_io, inputs, riot, audio_reset, audio_irq, coin_count, lastcoin, hist >>

\* the player or the operator changes the switches
input_change(cfg) ==
    /\ inputs # cfg
    /\ inputs' = cfg
    /\ lastOp' = Op("input_change", 0)
    /\ pre_reset' = audio_reset
    /\ calls' = << >>
    /\ ret' = None
    /\ UNCHANGED << aux, m_current_port, riot, audio_reset, audio_irq, coin_count,
                    lastcoin, hist >>

\* the machine after machine_start and the first machine_reset
(***************************************************************************)
(* Memory maps                                                             *)
(***************************************************************************)
\* the 6502's address space
AddrSize == 65536

Addr == 0 .. (AddrSize - 1)

\* a & b on addresses
BitAnd16(a, b) == BitAndN(a, b, 16)

\* a & ~mirror: the address an access is decoded at
Unmirrored(a, mirror) == BitAnd16(a, (AddrSize - 1) - mirror)

\* map(first, last).mirror(mirror): the range answers every address that
\* falls into it once the mirror bits are cleared
InRange(a, first, last, mirror) == Unmirrored(a, mirror) \in first .. last

\* the offset handed to the handler of such a range
RangeOffset(a, first, mirror) == Unmirrored(a, mirror) - first

Unmapped == << "unmapped", 0 >>

\* gameplan_main_map: what an access of the main CPU selects
gameplan_main_map(a, rw) ==
    CASE InRange(a, 0, 1023, 7168)    -> << "ram", RangeOffset(a, 0, 7168) >>
      [] InRange(a, 8192, 8207, 2032) -> << "via_0", RangeOffset(a, 8192, 2032) >>
      [] InRange(a, 10240, 10255, 2032)
                                      -> << "via_1", RangeOffset(a, 10240, 2032) >>
      [] InRange(a, 12288, 12303, 2032)
                                      -> << "via_2", RangeOffset(a, 12288, 2032) >>
      [] InRange(a, 32768, 65535, 0) /\ rw = "r"
                                      -> << "rom", a >>
      [] OTHER                        -> Unmapped

\* gameplan_audio_map: what an access of the audio CPU selects; the AY-3-8910
\* has a write handler at 0xa000 and 0xa002 and a read handler at 0xa001
gameplan_audio_map(a, rw) ==
    CASE InRange(a, 0, 127, 6016)     -> << "ram", RangeOffset(a, 0, 6016) >>
      [] InRange(a, 2048, 2079, 6112) -> << "riot", RangeOffset(a, 2048, 6112) >>
      [] InRange(a, 40960, 40960, 8188) /\ rw = "w"
                                      -> << "aysnd", 0 >>
      [] InRange(a, 40961, 40961, 8188) /\ rw = "r"
                                      -> << "aysnd", 1 >>
      [] InRange(a, 40962, 40962, 8188) /\ rw = "w"
                                      -> << "aysnd", 2 >>
      [] InRange(a, 57344, 59391, 6144) /\ rw = "r"
                                      -> << "rom", RangeOffset(a, 57344, 6144) >>
      [] OTHER                        -> Unmapped

\* a CPU puts an address on its bus: the access is decoded by its map
bus_access ==
    /\ Len(bus) = 3
    /\ bus' = Append(bus, IF bus[1] = "maincpu"
                          THEN gameplan_main_map(bus[2], bus[3])
                          ELSE gameplan_audio_map(bus[2], bus[3]))
    /\ lastOp' = Op("bus_access", bus[2])
    /\ pre_reset' = audio_reset
    /\ calls' = << >>
    /\ ret' = None
    /\ UNCHANGED << aux, counts, m_current_port, inputs, riot, audio_reset,
                    audio_irq, coin_count, lastcoin, hist >>

(***************************************************************************)
(* Save states                                                             *)
(***************************************************************************)
\* mutant: machine_start registers nothing of the multiplexer
DriverSaveItems_none == {}

\* the items machine_start registers (the video fields are outside the model)
DriverSaveItems == {"m_current_port"}

\* the items the devices register themselves: the RIOT its ports and
\* registers, the audio CPU the level of its input lines
DeviceSaveItems == {"riot", "audio_reset"}

SaveItems == DriverSaveItems \cup DeviceSaveItems

ItemValue(item) ==
    CASE item = "m_current_port" -> m_current_port
      [] item = "riot"           -> riot
      [] item = "audio_reset"    -> audio_reset

\* the value an item has after a load: the saved one if it was registered
Restored(item) ==
    IF item \in DOMAIN snapshot[1] THEN snapshot[1][item] ELSE ItemValue(item)

save_state ==
    /\ snapshot' = << [item \in SaveItems |-> ItemValue(item)] >>
    /\ at_save' = << [port |-> m_current_port, latch |-> Latch,
                      reset |-> audio_reset] >>
    /\ lastOp' = Op("save_state", 0)
    /\ pre_reset' = audio_reset
    /\ calls' = << >>
    /\ ret' = None
    /\ UNCHANGED << irq_out, soundlatch, selected, m_current_port, inputs, riot,
                    audio_reset, audio_irq, coin_count, lastcoin, hist >>

load_state ==
    /\ snapshot # << >>
    /\ m_current_port' = Restored("m_current_port")
    /\ riot' = Restored("riot")
    /\ audio_reset' = Restored("audio_reset")
    /\ last_cmd' = None
    /\ trig_after_cmd' = FALSE
    /\ last_trig' = None
    /\ cmd_cleared' = FALSE
    /\ trig_cleared' = FALSE
    /\ lastOp' = Op("load_state", 0)
    /\ pre_reset' = audio_reset
    /\ calls' = << >>
    /\ ret' = None
    /\ UNCHANGED << aux, inputs, audio_irq, coin_count, lastcoin >>

\* the machine after machine_start and the first machine_reset
InitState ==
    /\ m_current_port = 0
    /\ inputs = InitialInputs
    /\ riot = RiotPowerOn
    /\ audio_reset = ASSERT_LINE
    /\ audio_irq = CLEAR_LINE
    /\ coin_count = 0
    /\ lastcoin = 0
    /\ lastOp = Op("machine_reset", 0)
    /\ calls = << >>
    /\ ret = None
    /\ last_cmd = None
    /\ trig_after_cmd = FALSE
    /\ last_trig = None
    /\ cmd_cleared = FALSE
    /\ trig_cleared = FALSE
    /\ pre_reset = ASSERT_LINE
    /\ irq_out = CLEAR_LINE
    /\ soundlatch = 0
    /\ selected = "no"
    /\ snapshot = << >>
    /\ at_save = << >>

Init ==
    /\ InitState
    /\ counts = << >>
    /\ bus = << >>

\* how often call c occurs in the call sequence cs
NumCalls(cs, c) == Cardinality({i \in 1 .. Len(cs) : cs[i] = c})

\* bookkeeping of a callback: when the run tallies its calls, add those of
\* this callback (boost requests, r6532_irq(ASSERT_LINE), audio_reset_w(0),
\* RIOT resets, callbacks)
Tally ==
    /\ counts # << >> => counts[5] < MaxCallbacks
    /\ counts' =
          IF counts = << >> THEN counts
          ELSE << counts[1] + NumCalls(calls', CallBoostInterleave),
                  counts[2] + (IF lastOp'.name = "r6532_irq"
                                  /\ lastOp'.arg = ASSERT_LINE THEN 1 ELSE 0),
                  counts[3] + (IF lastOp'.name = "audio_reset_w"
                                  /\ lastOp'.arg = 0 THEN 1 ELSE 0),
                  counts[4] + NumCalls(calls', CallRiotReset),
                  counts[5] + 1 >>
    /\ UNCHANGED bus

DoSelect == \E data \in SelectCodes : io_select_w(data) /\ Tally

DoRead == io_port_r /\ Tally

DoCoin == \E state \in LineLevels : coin_w(state) /\ Tally

DoAudioReset == \E state \in LineLevels : audio_reset_w(state) /\ Tally

DoAudioCmd == \E data \in CmdBytes : audio_cmd_w(data) /\ Tally

DoAudioTrigger == \E state \in LineLevels : audio_trigger_w(state) /\ Tally

\* the RIOT drives its interrupt output to a new level and calls irq_callback
DoRiotIrq ==
    \E state \in LineLevels :
        /\ state # irq_out
        /\ irq_out' = state
        /\ r6532_irq(state)
        /\ Tally

DoAudioRiotWrite == \E v \in 0 .. MaxRiotRegs : audio_riot_write(v) /\ Tally

DoMachineReset == machine_reset /\ Tally

DoRiotPbOut == \E v \in SoundBytes : riot_pb_out(v) /\ Tally

DoSoundlatchRead == soundlatch_r /\ Tally

DoLatchRead == riot_porta_r /\ Tally

DoInputChange == \E cfg \in InputConfigs : input_change(cfg) /\ Tally

Next ==
    \/ DoSelect
    \/ DoRead
    \/ DoCoin
    \/ DoAudioReset
    \/ DoAudioCmd
    \/ DoAudioTrigger
    \/ DoRiotIrq
    \/ DoAudioRiotWrite
    \/ DoMachineReset

Spec == Init /\ [][Next]_vars

(***************************************************************************)
(* The port multiplexer over every byte value, with changing inputs.       *)
(***************************************************************************)
DoSelectAny == \E data \in Byte : io_select_w(data) /\ Tally

NextMux ==
    \/ DoSelectAny
    \/ DoRead
    \/ DoInputChange
    \/ DoMachineReset

SpecMux == Init /\ [][NextMux]_vars

(***************************************************************************)
(* The command latch over every byte value.                                *)
(***************************************************************************)
DoAudioCmdAny == \E data \in Byte : audio_cmd_w(data) /\ Tally

NextLatch ==
    \/ DoAudioCmdAny
    \/ DoAudioTrigger

SpecLatch == Init /\ [][NextLatch]_vars

(***************************************************************************)
(* The two processors and what they share.                                 *)
(***************************************************************************)
NextShared ==
    \/ DoAudioReset
    \/ DoAudioCmd
    \/ DoAudioTrigger
    \/ DoRiotIrq
    \/ DoAudioRiotWrite
    \/ DoRiotPbOut
    \/ DoSoundlatchRead
    \/ DoLatchRead

SpecShared == Init /\ [][NextShared]_vars

(***************************************************************************)
(* Saving and loading the machine's state.                                 *)
(***************************************************************************)
DoSave == save_state /\ Tally

DoLoad == load_state /\ Tally

NextSave ==
    \/ DoSelect
    \/ DoAudioReset
    \/ DoAudioCmd
    \/ DoAudioTrigger
    \/ DoSave
    \/ DoLoad

SpecSave == Init /\ [][NextSave]_vars

(***************************************************************************)
(* The callbacks that may ask for a boost, with their calls tallied; the   *)
(* RIOT's callback is driven with every level, repeated ones included.     *)
(***************************************************************************)
InitBoost ==
    /\ InitState
    /\ counts = << 0, 0, 0, 0, 0 >>
    /\ bus = << >>

DoRiotIrqAny ==
    \E state \in LineLevels :
        /\ irq_out' = state
        /\ r6532_irq(state)
        /\ Tally

NextBoost ==
    \/ DoAudioReset
    \/ DoRiotIrqAny
    \/ DoAudioTrigger
    \/ DoCoin

SpecBoost == InitBoost /\ [][NextBoost]_vars

(***************************************************************************)
(* One access of either CPU, over every address and both directions.       *)
(***************************************************************************)
InitDecode ==
    /\ InitState
    /\ counts = << >>
    /\ bus \in {<< cpu, a, rw >> : cpu \in {"maincpu", "audiocpu"},
                                   a \in Addr, rw \in {"r", "w"}}

DoBusAccess == bus_access

NextDecode == DoBusAccess

SpecDecode == InitDecode /\ [][NextDecode]_vars

(***************************************************************************)
(* Properties of the port multiplexer (checked under SpecMux).             *)
(***************************************************************************)
\* the code -> index table as the documentation states it
DocumentedIndex(code) ==
    IF code = 1 THEN 0 ELSE IF code = 2 THEN 1 ELSE IF code = 4 THEN 2
    ELSE IF code = 8 THEN 3 ELSE IF code = 128 THEN 4 ELSE 5

\* C1: for each of the six valid select codes, whatever was selected before,
\* io_select_w(code) followed by io_port_r() returns the current value of the
\* input group the code maps to (0x80 -> DSW0 at index 4, 0x40 -> DSW1 at 5).
C1_SelectThenRead ==
    [][ (/\ lastOp.name = "io_select_w"
         /\ lastOp.arg \in {1, 2, 4, 8, 128, 64}
         /\ lastOp'.name = "io_port_r")
        => ret' = inputs[DocumentedIndex(lastOp.arg)] ]_vars

\* C1 witness: 0x40 was selected and DSW1 was read after the switches changed
C1_Witness ==
    /\ lastOp.name = "io_port_r"
    /\ m_current_port = 5
    /\ inputs # InitialInputs
    /\ ret = inputs[5]

\* C2: a select write of any byte that is not one of the six codes leaves the
\* selected port index as it was, and a read after it returns the value of the
\* group that was selected before the write.
C2_InvalidSelectIgnored ==
    [][ /\ (/\ lastOp'.name = "io_select_w"
            /\ lastOp'.arg \notin {1, 2, 4, 8, 128, 64})
           => (/\ m_current_port' = m_current_port
               /\ inputs'[m_current_port'] = inputs[m_current_port])
        /\ (/\ lastOp.name = "io_select_w"
            /\ lastOp.arg \notin {1, 2, 4, 8, 128, 64}
            /\ lastOp'.name = "io_port_r")
           => ret' = inputs[m_current_port] ]_vars

\* C2 witness: group 2 is selected and shows 0xA5, then 0xFF was written
C2_Witness ==
    /\ lastOp = Op("io_select_w", 255)
    /\ m_current_port = 2
    /\ inputs[2] = 165

(***************************************************************************)
(* Properties of the command latch (checked under SpecLatch).              *)
(***************************************************************************)
\* C3: audio_cmd_w(c) leaves the latch equal to (L & 0x80) | (c & 0x7f), for
\* every old latch value L and every byte c: bit 7 is untouched.
C3_CmdMaskedWrite ==
    [][ lastOp'.name = "audio_cmd_w"
        => Latch' = (Latch \div 128) * 128 + (lastOp'.arg % 128) ]_vars

\* C3 witness: command 0x3C written while the trigger bit is 1 gives 0xBC
C3_Witness ==
    /\ lastOp = Op("audio_cmd_w", 60)
    /\ last_trig = 1
    /\ Latch = 188

\* C4: audio_trigger_w(t) leaves the latch equal to (L & 0x7f) | (t << 7).
C4_TriggerMaskedWrite ==
    [][ lastOp'.name = "audio_trigger_w"
        => Latch' = (Latch % 128) + lastOp'.arg * 128 ]_vars

\* C4 witness: the trigger dropped to 0 under a command with all low bits set
C4_Witness ==
    /\ lastOp = Op("audio_trigger_w", 0)
    /\ last_cmd = 255
    /\ Latch = 127

\* C5: the command write and the trigger write commute: a command write
\* followed by a trigger write, and the same writes in the other order, both
\* leave the latch at (t << 7) | (c & 0x7f).
C5_WritesCommute ==
    [][ /\ (/\ lastOp.name = "audio_cmd_w"
            /\ lastOp'.name = "audio_trigger_w")
           => Latch' = lastOp'.arg * 128 + (lastOp.arg % 128)
        /\ (/\ lastOp.name = "audio_trigger_w"
            /\ lastOp'.name = "audio_cmd_w")
           => Latch' = lastOp.arg * 128 + (lastOp'.arg % 128) ]_vars

\* C5 witness: trigger 1 then command 0xBC, whose own bit 7 is masked off
C5_Witness ==
    /\ lastOp = Op("audio_cmd_w", 188)
    /\ last_trig = 1
    /\ ~trig_cleared
    /\ Latch = 188

(***************************************************************************)
(* Properties of the audio reset sequencer (checked under Spec).           *)
(***************************************************************************)
\* what the handler is documented to do on the release: release the reset
\* input, reset the RIOT, request the boost, in this order
ReleaseSequence ==
    << CallSetInputLine("INPUT_LINE_RESET", CLEAR_LINE), CallRiotReset,
       CallBoostInterleave >>

\* what the handler does when the line is driven to 0
AssertSequence ==
    << CallSetInputLine("INPUT_LINE_RESET", ASSERT_LINE), CallRiotReset,
       CallBoostInterleave >>

\* C6 as stated: on the transition ASSERTED -> RUNNING the handler releases
\* the audio CPU's reset input, resets the RIOT to its power-on state and
\* requests a boost of zero delay and bounded duration, in this order; after
\* it the reset input is clear and the RIOT is in its power-on state.
C6_Original ==
    [][ (/\ lastOp'.name = "audio_reset_w"
         /\ audio_reset = ASSERT_LINE
         /\ audio_reset' = CLEAR_LINE)
        => (/\ calls' = ReleaseSequence
            /\ riot' = RiotPowerOn) ]_vars

\* C6 as amended: the three-step sequence belongs to the write of level 0,
\* which asserts the reset input (assert, RIOT reset, boost of zero delay and
\* 10 us, in this order; afterwards the reset input is asserted and the RIOT
\* is in its power-on state); the write of a non-zero level, which takes the
\* sequencer from ASSERTED to RUNNING, only releases the reset input.
C6_ResetWriteSequence ==
    [][ lastOp'.name = "audio_reset_w"
        => IF lastOp'.arg = 0
           THEN /\ calls' = AssertSequence
                /\ audio_reset' = ASSERT_LINE
                /\ riot' = RiotPowerOn
           ELSE /\ calls' = << CallSetInputLine("INPUT_LINE_RESET", CLEAR_LINE) >>
                /\ audio_reset' = CLEAR_LINE
                /\ riot' = riot ]_vars

\* C6 witness: the line was released with a command in the latch, which the
\* release left in place
C6_Witness ==
    /\ lastOp = Op("audio_reset_w", 1)
    /\ pre_reset = ASSERT_LINE
    /\ audio_reset = CLEAR_LINE
    /\ last_cmd = 60
    /\ ~cmd_cleared
    /\ Latch = 60

\* C7 as stated: on the transition RUNNING -> ASSERTED the handler only asserts
\* the reset input; the RIOT is not reset or otherwise changed.
C7_Original ==
    [][ (/\ audio_reset = CLEAR_LINE
         /\ audio_reset' = ASSERT_LINE)
        => (/\ calls' = << CallSetInputLine("INPUT_LINE_RESET", ASSERT_LINE) >>
            /\ riot' = riot) ]_vars

\* C7 as amended: the transition RUNNING -> ASSERTED is made by audio_reset_w(0)
\* alone, which asserts the reset input and also resets the RIOT to its
\* power-on state and requests a boost; it is the transition
\* ASSERTED -> RUNNING that leaves the RIOT unchanged.
C7_AssertResetsRiot ==
    [][ /\ (/\ audio_reset = CLEAR_LINE
            /\ audio_reset' = ASSERT_LINE)
           => (/\ lastOp' = Op("audio_reset_w", 0)
               /\ CallRiotReset = calls'[2]
               /\ riot' = RiotPowerOn)
        /\ (/\ audio_reset = ASSERT_LINE
            /\ audio_reset' = CLEAR_LINE)
           => (/\ Len(calls') = 1
               /\ riot' = riot) ]_vars

\* C7 witness: the reset was asserted on a running audio CPU and cleared a
\* command and a trigger out of the RIOT
C7_Witness ==
    /\ lastOp = Op("audio_reset_w", 0)
    /\ pre_reset = CLEAR_LINE
    /\ audio_reset = ASSERT_LINE
    /\ last_cmd = 188
    /\ last_trig = 1
    /\ cmd_cleared
    /\ trig_cleared
    /\ riot = RiotPowerOn

C9_Original ==
    audio_reset = ASSERT_LINE
    => (riot = RiotPowerOn /\ lastOp.name # "audio_riot_write")

\* C9 as amended: whenever the reset line is asserted, the RIOT registers the
\* audio CPU programs are in their power-on state and the audio CPU has taken
\* no step; the RIOT's port A input is cleared by the write that asserts the
\* line, but audio_cmd_w and audio_trigger_w writes made while the line stays
\* asserted change it.
C9_ResetHoldsRiotRegs ==
    audio_reset = ASSERT_LINE
    => /\ riot.regs = RiotPowerOn.regs
       /\ lastOp.name # "audio_riot_write"
       /\ lastOp = Op("audio_reset_w", 0) => riot = RiotPowerOn

\* C9 witness: the RIOT was reset after a trigger write, and a command was
\* written into it while the reset line was asserted
C9_Witness ==
    /\ audio_reset = ASSERT_LINE
    /\ pre_reset = ASSERT_LINE
    /\ lastOp = Op("audio_cmd_w", 60)
    /\ trig_cleared
    /\ riot.porta_in = 60

(***************************************************************************)
(* The latch fields over all operations (checked under Spec).              *)
(***************************************************************************)
\* C10 as stated: after any sequence of operations bits 0-6 of the latch are
\* the low 7 bits of the most recent audio_cmd_w and bit 7 is the level of the
\* most recent audio_trigger_w.
C10_Original ==
    /\ last_cmd # None => Latch % 128 = last_cmd % 128
    /\ last_trig # None => Latch \div 128 = last_trig

\* C10 as amended: bits 0-6 of the latch are the low 7 bits of the most recent
\* audio_cmd_w, and bit 7 the level of the most recent audio_trigger_w, unless
\* audio_reset_w(0) ran after that write: the RIOT reset clears the field.
C10_FieldsPersistUntilRiotReset ==
    /\ last_cmd # None
       => Latch % 128 = (IF cmd_cleared THEN 0 ELSE last_cmd % 128)
    /\ last_trig # None
       => Latch \div 128 = (IF trig_cleared THEN 0 ELSE last_trig)

\* C10 witness: a command cleared by the RIOT reset, a trigger written after
\* it, then a coin event
C10_Witness ==
    /\ lastOp.name = "coin_w"
    /\ last_cmd = 60
    /\ cmd_cleared
    /\ last_trig = 1
    /\ ~trig_cleared
    /\ Latch = 128

(***************************************************************************)
(* Properties of the interrupt forwarding and the boost (under Spec).      *)
(***************************************************************************)
\* the sequence of calls cs holds a boost_interleave request
Boosted(cs) == \E i \in 1 .. Len(cs) : cs[i] = CallBoostInterleave

\* C11: whenever the RIOT drives its interrupt output to a level, the audio
\* CPU's input line 0 has that level after the same step, also while the CPU
\* is held in reset: in every state the CPU's interrupt input equals the level
\* the RIOT output last.
C11_IrqFollowsRiot ==
    /\ audio_irq = irq_out
    /\ lastOp.name = "r6532_irq" => audio_irq = lastOp.arg

\* C11 witness: the RIOT asserted its interrupt while the CPU was held in reset
C11_Witness ==
    /\ lastOp = Op("r6532_irq", ASSERT_LINE)
    /\ audio_reset = ASSERT_LINE
    /\ audio_irq = ASSERT_LINE

C13_Original ==
    [][ Boosted(calls')
        <=> \/ (/\ lastOp'.name = "audio_reset_w"
                /\ audio_reset = ASSERT_LINE
                /\ audio_reset' = CLEAR_LINE)
            \/ lastOp' = Op("r6532_irq", ASSERT_LINE) ]_vars

\* C13 as amended: a boost is requested by exactly two events: audio_reset_w
\* driving the line to 0, which asserts the reset (RUNNING -> ASSERTED), and
\* the RIOT asserting its interrupt; no other operation requests one, the
\* transition ASSERTED -> RUNNING included.
C13_BoostSources ==
    [][ Boosted(calls')
        <=> \/ lastOp' = Op("audio_reset_w", 0)
            \/ lastOp' = Op("r6532_irq", ASSERT_LINE) ]_vars

\* C13 witness: the reset of a running audio CPU was asserted, with a boost
C13_Witness ==
    /\ lastOp = Op("audio_reset_w", 0)
    /\ pre_reset = CLEAR_LINE
    /\ Boosted(calls)

(***************************************************************************)
(* Properties of the coin counter (under Spec).                            *)
(***************************************************************************)
\* C14 as stated: the counter goes up by one on each falling transition of the
\* inverted CB2 signal (inverted level 1 -> 0) and on no other event.
C14_Original ==
    [][ IF lastOp'.name = "coin_w" /\ lastcoin = 1 /\ 1 - lastOp'.arg = 0
        THEN coin_count' = coin_count + 1
        ELSE coin_count' = coin_count ]_vars

\* C14 as amended: the counter goes up by one on each rising transition of the
\* inverted CB2 signal (inverted level 0 -> 1, the CB2 line itself falling)
\* and on no other event.
C14_CountsInvertedRising ==
    [][ IF lastOp'.name = "coin_w" /\ lastcoin = 0 /\ 1 - lastOp'.arg = 1
        THEN coin_count' = coin_count + 1
        ELSE coin_count' = coin_count ]_vars

\* C14 witness: the second coin, counted when CB2 fell
C14_Witness ==
    /\ lastOp = Op("coin_w", 0)
    /\ lastcoin = 1
    /\ coin_count = 2

C16_DefaultsToGroup0 ==
    (lastOp.name = "io_port_r" /\ selected # "yes") => ret = inputs[0]

\* C16 witness: a read after a reset that followed a valid select
C16_Witness ==
    /\ lastOp.name = "io_port_r"
    /\ selected = "cleared"
    /\ inputs # InitialInputs
    /\ ret = inputs[0]

\* C17 (under SpecMux): the Selected Port Index is an integer in 0..5 in every
\* reachable state, so io_port_r indexes inside its table of six port names.
C17_PortIndexInRange ==
    /\ m_current_port \in 0 .. 5
    /\ m_current_port \in DOMAIN inputs

\* C17 witness: an arbitrary byte was written with the last group selected
C17_Witness ==
    /\ lastOp = Op("io_select_w", 255)
    /\ m_current_port = 5

\* C18 (under Spec): io_port_r changes no state, and two reads in a row return
\* the same value; io_select_w changes nothing but the Selected Port Index.
C18_ReadIsPure ==
    [][ /\ lastOp'.name = "io_port_r"
           => UNCHANGED << m_current_port, inputs, riot, audio_reset, audio_irq,
                           coin_count, lastcoin, soundlatch, irq_out >>
        /\ (lastOp.name = "io_port_r" /\ lastOp'.name = "io_port_r")
           => ret' = ret
        /\ lastOp'.name = "io_select_w"
           => UNCHANGED << inputs, riot, audio_reset, audio_irq, coin_count,
                           lastcoin, soundlatch, irq_out >> ]_vars

\* C18 witness: a read of group 3 in a machine with a coin counted, a command
\* latched and the audio CPU running
C18_Witness ==
    /\ lastOp.name = "io_port_r"
    /\ m_current_port = 3
    /\ ret = inputs[3]
    /\ coin_count = 1
    /\ Latch = 188
    /\ audio_reset = CLEAR_LINE

(***************************************************************************)
(* Properties of the state shared by the two processors (SpecShared) and   *)
(* of save states (SpecSave).                                              *)
(***************************************************************************)
\* the steps of the audio CPU and of its RIOT
SecondarySteps ==
    {"audio_riot_write", "riot_pb_out", "r6532_irq", "riot_porta_r"}

LowBits(b) == BitAnd(b, 127)

FlagBit(b) == BitAnd(b, 128)

\* C19 as stated: the only state the two processors share is the Command
\* Latch byte and the Reset Line; no step of the audio CPU or of its RIOT
\* writes state that the main CPU reads, and none writes the latch or the
\* reset line.
C19_Original ==
    [][ lastOp'.name \in SecondarySteps
        => UNCHANGED << riot.porta_in, audio_reset, soundlatch, m_current_port,
                        inputs >> ]_vars

\* C19 as amended: the two processors share the Command Latch byte, the Reset
\* Line and the sound latch, which the RIOT's port B writes and the main CPU
\* reads back through port B of its third VIA.  Each has its writers on one
\* side: the command bits change only in audio_cmd_w or in the RIOT reset of
\* audio_reset_w, the flag bit only in audio_trigger_w or in that reset, the
\* reset line only in audio_reset_w, the sound latch only in a port B store
\* of the audio CPU; no step of the audio CPU or of its RIOT writes the
\* command latch or the reset line.
C19_SharedState ==
    [][ /\ lastOp'.name \in SecondarySteps
           => UNCHANGED << riot.porta_in, audio_reset, m_current_port, inputs >>
        /\ LowBits(Latch') # LowBits(Latch)
           => lastOp'.name \in {"audio_cmd_w", "audio_reset_w"}
        /\ FlagBit(Latch') # FlagBit(Latch)
           => lastOp'.name \in {"audio_trigger_w", "audio_reset_w"}
        /\ audio_reset' # audio_reset => lastOp'.name = "audio_reset_w"
        /\ soundlatch' # soundlatch => lastOp'.name = "riot_pb_out"
        /\ lastOp'.name = "soundlatch_r" => ret' = soundlatch ]_vars

\* C19 witness: the main CPU reads back a byte the audio CPU stored, with a
\* command and the flag bit still in the command latch
C19_Witness ==
    /\ lastOp.name = "soundlatch_r"
    /\ ret = 85
    /\ Latch = 188
    /\ audio_reset = CLEAR_LINE

C21_CoinInversion ==
    [][ lastOp'.name = "coin_w"
        => /\ calls' = << << "coin_counter_w", "0",
                             IF lastOp'.arg % 2 = 0 THEN 1 ELSE 0 >> >>
           /\ coin_count' # coin_count => lastOp'.arg = 0
           /\ (lastOp'.arg = 0 /\ lastcoin = 0)
              => coin_count' = coin_count + 1 ]_vars

\* C21 witness: the line went back high after a coin; nothing was counted
C21_Witness ==
    /\ lastOp = Op("coin_w", 1)
    /\ calls = << CallCoinCounter(0) >>
    /\ lastcoin = 0
    /\ coin_count = 1

\* C23: the audio CPU's reset input is a function of the last level written
\* with audio_reset_w alone: cleared for a non-zero level, asserted for 0, and
\* left alone by everything else; writing a level twice changes nothing more.
C23_ResetFollowsLastWrite ==
    [][ /\ lastOp'.name = "audio_reset_w"
           => audio_reset' = (IF lastOp'.arg # 0 THEN CLEAR_LINE
                                                  ELSE ASSERT_LINE)
        /\ lastOp'.name # "audio_reset_w" => audio_reset' = audio_reset
        /\ (lastOp'.name = "audio_reset_w" /\ lastOp = lastOp')
           => audio_reset' = audio_reset ]_vars

\* C23 witness: the release level written while the reset was released
C23_Witness ==
    /\ lastOp = Op("audio_reset_w", 1)
    /\ pre_reset = CLEAR_LINE
    /\ audio_reset = CLEAR_LINE
    /\ riot.regs = 1

\* C25: every boost_interleave request, from either call site, has initial
\* delay zero and duration 10 microseconds, and issuing one changes none of
\* the driver's own variables.
C25_BoostArguments ==
    [][ /\ \A i \in 1 .. Len(calls') :
              calls'[i][1] = "boost_interleave"
              => (calls'[i][2] = "attotime::zero" /\ calls'[i][3] = 10)
        /\ (\E i \in 1 .. Len(calls') : calls'[i][1] = "boost_interleave")
           => m_current_port' = m_current_port ]_vars

\* C25 witness: a request from the interrupt site with group 3 selected
C25_Witness ==
    /\ lastOp = Op("r6532_irq", ASSERT_LINE)
    /\ calls[2] = << "boost_interleave", "attotime::zero", 10 >>
    /\ m_current_port = 3

\* C27: io_select_w, io_port_r and coin_w never change the command latch, the
\* audio CPU's reset input or its interrupt input; audio_cmd_w,
\* audio_trigger_w, audio_reset_w and r6532_irq never change the Selected Port
\* Index or the coin counter.
C27_SidesDoNotInterfere ==
    [][ /\ lastOp'.name \in {"io_select_w", "io_port_r", "coin_w"}
           => (Latch' = Latch /\ audio_reset' = audio_reset
               /\ audio_irq' = audio_irq)
        /\ lastOp'.name \in {"audio_cmd_w", "audio_trigger_w", "audio_reset_w",
                             "r6532_irq"}
           => (m_current_port' = m_current_port /\ coin_count' = coin_count
               /\ lastcoin' = lastcoin) ]_vars

\* C27 witness: the reset asserted with group 4 selected and two coins counted
C27_Witness ==
    /\ lastOp = Op("audio_reset_w", 0)
    /\ pre_reset = CLEAR_LINE
    /\ m_current_port = 4
    /\ coin_count = 2

(***************************************************************************)
(* Properties of the tallied calls (under SpecBoost).                      *)
(***************************************************************************)
\* C24: over any sequence of callbacks the number of boost_interleave
\* requests equals the number of r6532_irq(ASSERT_LINE) calls plus the number
\* of audio_reset_w(0) calls, and the number of RIOT resets the number of
\* audio_reset_w(0) calls: a call repeated with an unchanged level counts again.
C24_BoostPerCall ==
    /\ counts[1] = counts[2] + counts[3]
    /\ counts[4] = counts[3]

\* C24 witness: audio_reset_w(0) twice in a row from the asserted reset: two
\* requests and two RIOT resets
C24_Witness ==
    /\ lastOp = Op("audio_reset_w", 0)
    /\ pre_reset = ASSERT_LINE
    /\ counts = << 2, 0, 2, 2, 2 >>

(***************************************************************************)
(* Properties of the handshake between the processors (under SpecShared).  *)
(***************************************************************************)
\* the byte the latch shows for command c and trigger level t
CommandWithFlag(c, t) == BitOr(BitAnd(c, 127), ToByte(t * 128))

\* C22 as stated: once the main CPU has written command c and afterwards the
\* trigger, with no command write in between, every latch read of the audio
\* CPU after the trigger write returns c & 0x7f with the new trigger level in
\* bit 7, under every interleaving.
C22_Original ==
    (lastOp.name = "riot_porta_r" /\ trig_after_cmd)
    => ret = CommandWithFlag(last_cmd, last_trig)

\* C22 as amended: the same, provided the RIOT was not reset (audio_reset_w
\* with level 0) after the command write: that reset clears the latch, and a
\* read after it returns neither the command nor an older one.
C22_ReadAfterTrigger ==
    (lastOp.name = "riot_porta_r" /\ trig_after_cmd
     /\ ~cmd_cleared /\ ~trig_cleared)
    => ret = CommandWithFlag(last_cmd, last_trig)

\* C22 witness: the audio CPU reads 0xbc after command 0xbc and trigger 1
C22_Witness ==
    /\ lastOp.name = "riot_porta_r"
    /\ trig_after_cmd
    /\ ~cmd_cleared
    /\ ~trig_cleared
    /\ last_cmd = 188
    /\ last_trig = 1
    /\ ret = 188

\* C26: every byte the RIOT outputs on port B is written to the sound latch,
\* nothing else writes it, and a main CPU read of port B of the third VIA
\* returns the byte the audio side wrote last, under every interleaving.
C26_ReturnChannel ==
    [][ /\ lastOp'.name = "riot_pb_out" => soundlatch' = lastOp'.arg
        /\ lastOp'.name # "riot_pb_out" => soundlatch' = soundlatch
        /\ lastOp'.name = "soundlatch_r" => ret' = soundlatch ]_vars

\* C26 witness: the main CPU reads the second byte the audio CPU wrote, after
\* it put the audio CPU back into reset
C26_Witness ==
    /\ lastOp.name = "soundlatch_r"
    /\ ret = 170
    /\ soundlatch = 170
    /\ audio_reset = ASSERT_LINE

(***************************************************************************)
(* The memory maps against the map the driver documents (SpecDecode).      *)
(***************************************************************************)
\* an access that was decoded
Decoded(cpu) == Len(bus) = 4 /\ bus[1] = cpu

\* bits 15-11, 15-13, 15-14 and bit 11 of the address on the bus
Bits15_11 == bus[2] \div 2048

Bits15_13 == bus[2] \div 8192

Bits15_14 == bus[2] \div 16384

Bit11 == (bus[2] \div 2048) % 2

\* the devices with a handler, for reading or for writing, at an address of
\* the audio CPU
AudioDevicesAt(a) == {gameplan_audio_map(a, rw)[1] : rw \in {"r", "w"}}

\* C28 as stated: the decoders implement the documented map for the mapped
\* devices: on the main CPU bits 15-11 = 00100, 00101, 00110 select register
\* (address & 0x0f) of VIA 1, 2, 3; on the sound CPU 000-0----xxxxxxx selects
\* RAM byte (address & 0x7f), 000-1------xxxxx RIOT register (address & 0x1f),
\* 101-----------xx the AY-3-8910 and 111--xxxxxxxxxxx ROM offset
\* (address & 0x7ff).
C28_DocumentedDevices ==
    /\ Decoded("maincpu")
       => /\ Bits15_11 = 4 => bus[4] = << "via_0", bus[2] % 16 >>
          /\ Bits15_11 = 5 => bus[4] = << "via_1", bus[2] % 16 >>
          /\ Bits15_11 = 6 => bus[4] = << "via_2", bus[2] % 16 >>
    /\ Decoded("audiocpu")
       => /\ (Bits15_13 = 0 /\ Bit11 = 0) => bus[4] = << "ram", bus[2] % 128 >>
          /\ (Bits15_13 = 0 /\ Bit11 = 1) => bus[4] = << "riot", bus[2] % 32 >>
          /\ Bits15_13 = 5 => "aysnd" \in AudioDevicesAt(bus[2])
          /\ (Bits15_13 = 7 /\ bus[3] = "r")
             => bus[4] = << "rom", bus[2] % 2048 >>

\* C29 as stated: on the main CPU every address the documented map marks n.c.
\* (bits 15-11 = 00001, 00010, 00011 or 00111, bits 15-14 = 01 or 10) selects
\* no device, RAM answers only where bits 15-11 are 00000 and program ROM
\* only where bits 15-14 are 11.
C29_NotConnected ==
    Decoded("maincpu")
    => /\ (Bits15_11 \in {1, 2, 3, 7} \/ Bits15_14 \in {1, 2})
          => bus[4] = Unmapped
       /\ bus[4][1] = "ram" => Bits15_11 = 0
       /\ bus[4][1] = "rom" => Bits15_14 = 3

====
